---- MODULE Spec2Model ----
(***************************************************************************)
(* Color_correction: card detection (Detect_colorChecker.py), the per-image *)
(* correction pipeline (Color_correction.py), the color model               *)
(* (colorbalance.py) and the per-image reporting of main                    *)
(* (run_color_correction.py).                                               *)
(*                                                                          *)
(* Units.  Correlation scores and the detection accuracy Acc are in         *)
(* hundredths (0.3 is 30).  meanError is in hundredths of a color unit      *)
(* (40 is 4000).  correction_error is in hundredths of a percent (50.00 is  *)
(* 5000).  A float NaN is the value NaN below; the comparisons FGt and FLt  *)
(* are false on it, as IEEE comparisons are.                                *)
(***************************************************************************)
EXTENDS Integers, Sequences, FiniteSets, TLC

VARIABLES
    \* ---- detect_card / paralell_search
    cells,      \* cells[a][i]: what scale i of angle a yields: TooSmall or the score
    taskPc,     \* taskPc[a]: "start" | "loop" | "done", the per-angle task's position
    taskI,      \* taskI[a]: index of the next scale the task looks at
    found,      \* found[a]: the task's bookkeeping variable
    detPc,      \* "idle" | "search" | "returned" | "raised"
    detRes,     \* what detect_card returned
    search_degree, \* search_degree[a]: the angle, [val, pyint]; pyint: a Python int
    rotCalls,   \* the angles a whose task called ndimage.rotate(gray, degree)
    outRot,     \* detect_card called ndimage.rotate(img, deg) before cropping
    matched,    \* matched[a]: the scales on which the task called cv2.matchTemplate
    doneOrder,  \* the angles in the order their tasks finished
    \* ---- main (per image) and Color_correct_and_write
    pc,         \* "idle" | "start" | "sample" | "gate" | "orient" | "fit" | "emit"
                \*   | "report" | "done" | "crashed"
    Acc,        \* detection accuracy handed to the pipeline
    card,       \* the cropped card: [H, W, colors, std]
    sampled,    \* what get_colorcard_colors returned: [colors, std]
    actual_colors,
    actual_colors_std,
    card_damaged,
    card_rotated,
    iter,       \* fit attempts made
    meanErr,    \* np.mean(errors) of the latest attempt
    noise2,     \* offset of actual_colors2 from actual_colors, in tenths
    coef,       \* the attempt whose coefficients color_alpha, ... hold
    correction_error,
    did,        \* steps of Color_correct_and_write executed so far
    written,    \* 0: nothing written; k: image corrected with attempt k's coefficients
    ret,        \* what Color_correct_and_write returned
    reported,   \* the outcome main printed for the image
    algs,       \* the algorithm names Color_correct_and_write has passed to colorbalance
    minErr,     \* the lowest np.mean(errors) of the attempts so far
    \* ---- correct_color
    ccPc,       \* "idle" | "call" | "returned" | "fitted" | "raised"
    ccAlg,      \* the algorithm argument
    ccErr,      \* the exception the call raised, "none" if it returned
    ccDid,      \* the work the call did: "leastsq", "model"
    ccImage,    \* the input image, rows of columns of pixels
    ccModel,    \* [A, b, g]: color_alpha, color_constant, color_gamma
    ccOut       \* the returned image

detVars == <<cells, taskPc, taskI, found, detPc, detRes, search_degree, rotCalls, outRot,
             matched, doneOrder>>
pipeVars == <<pc, Acc, card, sampled, actual_colors, actual_colors_std, card_damaged,
              card_rotated, iter, meanErr, noise2, coef, correction_error, did,
              written, ret, reported, algs, minErr>>
ccVars == <<ccPc, ccAlg, ccErr, ccDid, ccImage, ccModel, ccOut>>

vars == <<detVars, pipeVars, ccVars>>

----------------------------------------------------------------------------
(* Bounds of the search grid *)
NumScales == 3
MaxScore == 1

AngleIdx == 1..2
ScaleIdx == 1..NumScales

\* resized.shape < card shape for this (angle, scale)
TooSmall == -1
Scores == 0..MaxScore
CellValues == {TooSmall} \cup Scores

\* found = None
NoMatch == [val |-> -1, idx |-> 0]

\* an angle given as a Python int, and as a float (np.linspace yields np.float64)
PyInt(v) == [val |-> v, pyint |-> TRUE]
Float(v) == [val |-> v, pyint |-> FALSE]

\* `degree is not 0`: an identity test, false only for the int object 0 itself
IsNot0(degree) == ~(degree.pyint /\ degree.val = 0)

----------------------------------------------------------------------------
(* paralell_search *)

\* `>=` for `>`: the last-seen maximum would win
UpdateFoundLast(fnd, v, i) ==
    IF fnd = NoMatch \/ v >= fnd.val THEN [val |-> v, idx |-> i] ELSE fnd

\* if found is None or maxVal > found[0]: found = (maxVal, maxLoc, r, scale2)
UpdateFound(fnd, v, i) ==
    IF fnd = NoMatch \/ v > fnd.val THEN [val |-> v, idx |-> i] ELSE fnd

\* the scale loop, from scale i on with bookkeeping fnd
RECURSIVE ScanScales(_, _, _)
ScanScales(row, i, fnd) ==
    IF i > Len(row) THEN fnd
    ELSE IF row[i] = TooSmall THEN fnd
    ELSE ScanScales(row, i + 1, UpdateFound(fnd, row[i], i))

paralell_search(row) == ScanScales(row, 1, NoMatch)

----------------------------------------------------------------------------
(* detect_card *)

\* np.argmax: the index of the first occurrence of the maximum
ArgMax(vals) ==
    CHOOSE k \in DOMAIN vals :
        /\ \A j \in DOMAIN vals : vals[j] <= vals[k]
        /\ \A j \in DOMAIN vals : j < k => vals[j] < vals[k]

\* zip(*results) raises TypeError when a task returned None
Raised == [raised |-> TRUE, conf |-> 0, scale |-> 0, deg |-> 0]

\* lines 47-51 and the return: maxVal, SCALE of results[ind], deg = search_degree[ind]
SelectResult(results) ==
    IF \E a \in DOMAIN results : results[a] = NoMatch
    THEN Raised
    ELSE LET ind == ArgMax([a \in DOMAIN results |-> results[a].val])
         IN  [raised |-> FALSE, conf |-> results[ind].val,
              scale |-> results[ind].idx, deg |-> ind]

detect_card(grid) == SelectResult([a \in DOMAIN grid |-> paralell_search(grid[a])])

----------------------------------------------------------------------------
(* floats *)

\* the float nan (np.median and np.std of an empty window)
NaN == -1

\* x > y and x < y on floats: false when either is nan
FGt(x, y) == x # NaN /\ y # NaN /\ x > y
FLt(x, y) == x # NaN /\ y # NaN /\ x < y

----------------------------------------------------------------------------
(* colorbalance.py: the reference table and get_colorcard_colors *)

\* algorithm="gamma_correction", the default of both functions
DefaultAlgorithm == "gamma_correction"

\* every name accepted
SupportedAny(algorithm) == TRUE

\* the names the dispatch accepts, lines 160-165 and 266-275
Supported(algorithm) == algorithm \in {"classic_gamma_correction", "gamma_correction"}

grid_cols == 6
grid_rows == 4
NumPatches == grid_cols * grid_rows
Patch == 1..NumPatches

\* the built-in table, one <<R, G, B>> per patch
ColorCheckerRGB_CameraTrax ==
    << <<115, 83, 68>>,   <<196, 147, 127>>, <<91, 122, 155>>,  <<94, 108, 66>>,
       <<129, 128, 176>>, <<98, 190, 168>>,  <<223, 124, 47>>,  <<58, 92, 174>>,
       <<194, 82, 96>>,   <<93, 60, 103>>,   <<162, 190, 62>>,  <<229, 158, 41>>,
       <<49, 66, 147>>,   <<77, 153, 71>>,   <<173, 57, 60>>,   <<241, 201, 25>>,
       <<190, 85, 150>>,  <<0, 135, 166>>,   <<242, 243, 245>>, <<203, 203, 204>>,
       <<162, 163, 162>>, <<120, 120, 120>>, <<84, 84, 84>>,    <<50, 50, 52>> >>

\* a[::-1]
Reverse(seq) == [i \in 1..Len(seq) |-> seq[Len(seq) + 1 - i]]

NaNColor == <<NaN, NaN, NaN>>

\* sample_size_row = int(0.2 * H / grid_rows), sample_size_col = int(0.2 * W / grid_cols)
sample_size_row(H) == (2 * H) \div (10 * grid_rows)
sample_size_col(W) == (2 * W) \div (10 * grid_cols)

\* the window color_card[r-ssr : r+ssr, c-ssc : c+ssc] holds no pixel
EmptyWindow(c) == sample_size_row(c.H) = 0 \/ sample_size_col(c.W) = 0

\* medians and summed standard deviations of the patch windows; of an empty
\* window both are nan, and nothing is raised
get_colorcard_colors(c) ==
    IF EmptyWindow(c)
    THEN [error |-> FALSE, colors |-> [i \in Patch |-> NaNColor], std |-> [i \in Patch |-> NaN]]
    ELSE [error |-> FALSE, colors |-> c.colors, std |-> c.std]

----------------------------------------------------------------------------
(* Color_correct_and_write *)

DamageStd == 90
AccRetry == 40
MeanErrRetry == 4000
MaxIter == 6
ErrorGate == 5000
AccGate == 30

\* np.sum(actual_colors[:, i]) for the 0-based column i
ColSum(colors, i) ==
    LET c == colors[i + 1] IN
    IF c[1] = NaN \/ c[2] = NaN \/ c[3] = NaN THEN NaN ELSE c[1] + c[2] + c[3]

\* the column of the negative index -k
Neg(k) == NumPatches - k

\* `>= 90` for `> 90`
AnyDamagedInclusive(std) == \E i \in Patch : std[i] # NaN /\ std[i] >= DamageStd

\* any(actual_colors_std > 90)
AnyDamaged(std) == \E i \in Patch : FGt(std[i], DamageStd)

\* lines 26-35
cnt_color(colors) ==
      (IF FGt(ColSum(colors, 8), ColSum(colors, Neg(9))) THEN 1 ELSE 0)
    + (IF FGt(ColSum(colors, 5), ColSum(colors, Neg(6))) THEN 1 ELSE 0)
    + (IF FLt(ColSum(colors, 0), ColSum(colors, Neg(1))) THEN 1 ELSE 0)

\* all three conditions required
IsRotatedAll(colors) == cnt_color(colors) >= 3

\* if cnt_color >= 2
IsRotated(colors) == cnt_color(colors) >= 2

\* actual_colors_std[::-1] when rotated
OrientStd(std, rot) == IF rot THEN Reverse(std) ELSE std

\* the colors left in sampled order
OrientColorsKept(colors, rot) == colors

\* actual_colors[:, ::-1] when rotated
OrientColors(colors, rot) == IF rot THEN Reverse(colors) ELSE colors

\* Acc > 0.4 and mean > 40 and iter <= 6
RetryOneMore(acc, mean, k) == acc > AccRetry /\ FGt(mean, MeanErrRetry) /\ k <= MaxIter

\* Acc > 0.4 and np.mean(errors) > 40 and iter < 6
Retry(acc, mean, k) == acc > AccRetry /\ FGt(mean, MeanErrRetry) /\ k < MaxIter

\* each retry adds its noise to the colors of the previous attempt
PerturbAccum(prev, n) == prev + n

\* actual_colors2 = actual_colors + np.random.rand(3, 24), line 58: the offset of
\* actual_colors2 from actual_colors after a draw n, prev being the offset before
Perturb(prev, n) == n

\* the percentage capped at 100
RoundPctClamped(mean) ==
    IF (40 * mean + 51) \div 102 > 10000 THEN 10000 ELSE (40 * mean + 51) \div 102

\* round((mean / 255) * 10000), mean in hundredths: the nearest integer to
\* mean * 20 / 51, which is never half-way
RoundPct(mean) == (40 * mean + 51) \div 102

\* `<= 50` for `< 50`
AcceptedInclusive(err) == err # NaN /\ err <= ErrorGate

\* correction_error < 50
Accepted(err) == FLt(err, ErrorGate)

NoResult == [raised |-> FALSE, conf |-> 0, scale |-> 0, deg |-> 0]

\* the scales whose resized image is at least as large as the template
Fits(row) == {i \in DOMAIN row : row[i] # TooSmall}

\* every grid of scores.  The resized width int(W * scale) does not depend on the
\* angle and the resized height grows with it and with the rotated aspect ratio,
\* so of two angles one fits at every scale the other fits at
Grids ==
    {g \in [AngleIdx -> [ScaleIdx -> CellValues]] :
        \A a, b \in AngleIdx : Fits(g[a]) \subseteq Fits(g[b]) \/ Fits(g[b]) \subseteq Fits(g[a])}

----------------------------------------------------------------------------
(* idle values of the parts a specification does not run *)

NoCard == [H |-> 0, W |-> 0, colors |-> <<>>, std |-> <<>>]
NoSample == [error |-> FALSE, colors |-> <<>>, std |-> <<>>]
NoReturn == <<FALSE, FALSE, 0>>

\* main hands over np.linspace(degree_lower, degree_upper, degree_num): floats
DetIdle ==
    /\ taskPc = [a \in DOMAIN cells |-> "done"]
    /\ taskI = [a \in DOMAIN cells |-> 1]
    /\ found = [a \in DOMAIN cells |-> NoMatch]
    /\ detPc = "idle"
    /\ detRes = NoResult
    /\ search_degree = [a \in DOMAIN cells |-> Float(0)]
    /\ rotCalls = {}
    /\ outRot = FALSE
    /\ matched = [a \in DOMAIN cells |-> {}]
    /\ doneOrder = <<>>

PipeIdle(p) ==
    /\ pc = p
    /\ Acc = 0
    /\ card = NoCard
    /\ sampled = NoSample
    /\ actual_colors = <<>>
    /\ actual_colors_std = <<>>
    /\ card_damaged = FALSE
    /\ card_rotated = FALSE
    /\ iter = 0
    /\ meanErr = 0
    /\ noise2 = 0
    /\ coef = 0
    /\ correction_error = 0
    /\ did = {}
    /\ written = 0
    /\ ret = NoReturn
    /\ reported = "none"
    /\ algs = {}
    /\ minErr = 0

CCIdle ==
    /\ ccPc = "idle"
    /\ ccAlg = ""
    /\ ccErr = "none"
    /\ ccDid = {}
    /\ ccImage = <<>>
    /\ ccModel = <<>>
    /\ ccOut = <<>>

\* the angle lists searched: floats as np.linspace builds them, Python ints as a
\* caller may write them
DegreeInputs == {<<Float(-1), Float(0)>>, <<PyInt(0), PyInt(1)>>}

InitDetect ==
    /\ cells \in Grids
    /\ search_degree \in DegreeInputs
    /\ taskPc = [a \in AngleIdx |-> "start"]
    /\ taskI = [a \in AngleIdx |-> 1]
    /\ found = [a \in AngleIdx |-> NoMatch]
    /\ detPc = "search"
    /\ detRes = NoResult
    /\ rotCalls = {}
    /\ outRot = FALSE
    /\ matched = [a \in AngleIdx |-> {}]
    /\ doneOrder = <<>>
    /\ PipeIdle("idle")
    /\ CCIdle

\* lines 8-12 of the task of angle a
TaskStart(a) ==
    /\ detPc = "search"
    /\ taskPc[a] = "start"
    /\ rotCalls' = IF IsNot0(search_degree[a]) THEN rotCalls \cup {a} ELSE rotCalls
    /\ taskPc' = [taskPc EXCEPT ![a] = "loop"]
    /\ UNCHANGED <<cells, taskI, found, detPc, detRes, search_degree, outRot, matched,
                   doneOrder, pipeVars, ccVars>>

\* `continue` for `break`: a too-small scale is skipped and the scan goes on
ScaleStepContinue(a) ==
    /\ detPc = "search"
    /\ taskPc[a] = "loop"
    /\ LET i == taskI[a]
           last == i = Len(cells[a])
       IN  /\ IF cells[a][i] = TooSmall
              THEN UNCHANGED <<found, matched>>
              ELSE /\ found' = [found EXCEPT ![a] = UpdateFound(found[a], cells[a][i], i)]
                   /\ matched' = [matched EXCEPT ![a] = matched[a] \cup {i}]
           /\ taskI' = [taskI EXCEPT ![a] = i + 1]
           /\ taskPc' = [taskPc EXCEPT ![a] = IF last THEN "done" ELSE "loop"]
           /\ doneOrder' = IF last THEN Append(doneOrder, a) ELSE doneOrder
    /\ UNCHANGED <<cells, detPc, detRes, search_degree, rotCalls, outRot, pipeVars, ccVars>>

\* one iteration of the scale loop of the task of angle a (lines 13-30), the
\* return (line 31) with the last one
ScaleStep(a) ==
    /\ detPc = "search"
    /\ taskPc[a] = "loop"
    /\ LET i == taskI[a] IN
       IF cells[a][i] = TooSmall
       THEN /\ taskPc' = [taskPc EXCEPT ![a] = "done"]
            /\ doneOrder' = Append(doneOrder, a)
            /\ UNCHANGED <<taskI, found, matched>>
       ELSE /\ found' = [found EXCEPT ![a] = UpdateFound(found[a], cells[a][i], i)]
            /\ matched' = [matched EXCEPT ![a] = matched[a] \cup {i}]
            /\ taskI' = [taskI EXCEPT ![a] = i + 1]
            /\ taskPc' = [taskPc EXCEPT ![a] = IF i = Len(cells[a]) THEN "done" ELSE "loop"]
            /\ doneOrder' = IF i = Len(cells[a]) THEN Append(doneOrder, a) ELSE doneOrder
    /\ UNCHANGED <<cells, detPc, detRes, search_degree, rotCalls, outRot, pipeVars, ccVars>>

\* the results taken in the order the tasks finished
CollectedByCompletion == [k \in DOMAIN found |-> found[doneOrder[k]]]

\* results = Parallel(...)(... for degree in search_degree): the tasks' results in
\* the order of search_degree, line 46
CollectedResults == found

\* Parallel(...) has returned every task's result: lines 47-63
Collect ==
    /\ detPc = "search"
    /\ \A a \in AngleIdx : taskPc[a] = "done"
    /\ LET res == SelectResult(CollectedResults) IN
       /\ detRes' = res
       /\ detPc' = IF res.raised THEN "raised" ELSE "returned"
       /\ outRot' = (~res.raised /\ IsNot0(search_degree[res.deg]))
    /\ UNCHANGED <<cells, taskPc, taskI, found, search_degree, rotCalls, matched,
                   doneOrder, pipeVars, ccVars>>

NextDetect ==
    \/ \E a \in AngleIdx : TaskStart(a)
    \/ \E a \in AngleIdx : ScaleStep(a)
    \/ Collect

SpecDetect == InitDetect /\ [][NextDetect]_vars

----------------------------------------------------------------------------
(* the inputs of one image of main *)

\* one angle, one scale: the photo is too small for the template, or matches with
\* an accuracy around the gates 0.3 and 0.4
MainScores == {TooSmall, 30, 31, 40, 41}
MainGrids == {[a \in {1} |-> [i \in {1} |-> v]] : v \in MainScores}

\* the six patches the orientation votes read, as 0-based columns
KeyCols == {0, 5, 8, 15, 18, 23}
Dark == <<10, 10, 10>>
Bright == <<100, 100, 100>>

\* the reference colors with the six patches overridden
KeyTable(k) ==
    [i \in Patch |-> IF (i - 1) \in KeyCols THEN k[i - 1] ELSE ColorCheckerRGB_CameraTrax[i]]

ColorInputs ==
    {ColorCheckerRGB_CameraTrax, Reverse(ColorCheckerRGB_CameraTrax)}
        \cup {KeyTable(k) : k \in [KeyCols -> {Dark, Bright}]}

\* dispersions: rising up to exactly 90, all exactly 90, and one patch at 91
StdInputs ==
    {[i \in Patch |-> DamageStd - NumPatches + i], [i \in Patch |-> DamageStd]}
        \cup {[i \in Patch |-> IF i = k THEN DamageStd + 1 ELSE DamageStd] : k \in Patch}

\* card sizes with a sampling window of at least one pixel per axis
GoodDims == {<<20, 30>>, <<100, 150>>}
\* the empty card and cards with no pixel in the window on one axis
EmptyDims == {<<0, 0>>, <<19, 150>>, <<100, 29>>}

CardInputs ==
    {[H |-> d[1], W |-> d[2], colors |-> c, std |-> s] :
        d \in GoodDims, c \in ColorInputs, s \in StdInputs}
    \cup {[H |-> d[1], W |-> d[2], colors |-> ColorCheckerRGB_CameraTrax,
           std |-> [i \in Patch |-> 0]] : d \in EmptyDims}

\* np.mean(errors) of a fit, around the retry threshold 40 and the gate 50 %:
\* 127.48 gives 49.99 %, 127.49 gives 50.00 %, 300 gives 117.65 %
MeanErrors == {0, 4000, 4001, 12748, 12749, 30000}

\* np.random.rand: an offset in [0, 1), in tenths
NoiseInputs == {0, 5, 9}

Init ==
    /\ cells \in MainGrids
    /\ DetIdle
    /\ PipeIdle("start")
    /\ CCIdle

----------------------------------------------------------------------------
(* main, lines 254-293, and Color_correct_and_write *)

\* line 254: detect_card raises (no handler in main), or returns Acc and the card;
\* lines 258, 288-293: the pipeline is entered when Acc > 0.3
MainDetect ==
    /\ pc = "start"
    /\ LET res == detect_card(cells) IN
       /\ detRes' = res
       /\ IF res.raised
          THEN /\ detPc' = "raised"
               /\ pc' = "crashed"
               /\ outRot' = FALSE
               /\ UNCHANGED <<Acc, card, reported>>
          ELSE /\ detPc' = "returned"
               /\ outRot' = IsNot0(search_degree[res.deg])
               /\ Acc' = res.conf
               /\ card' \in CardInputs
               /\ IF res.conf > AccGate
                  THEN pc' = "sample" /\ UNCHANGED reported
                  ELSE pc' = "done" /\ reported' = "detection unsatisfactory"
    /\ rotCalls' = {a \in DOMAIN cells : IsNot0(search_degree[a])}
    /\ matched' = [a \in DOMAIN cells |-> {i \in DOMAIN cells[a] : \A j \in 1..i : cells[a][j] # TooSmall}]
    /\ UNCHANGED <<cells, taskPc, taskI, found, search_degree, doneOrder, sampled,
                   actual_colors, actual_colors_std, card_damaged, card_rotated, iter,
                   meanErr, noise2, coef, correction_error, did, written, ret, algs,
                   minErr, ccVars>>

\* lines 10-16
Sample ==
    /\ pc = "sample"
    /\ LET got == get_colorcard_colors(card) IN
       /\ sampled' = got
       /\ IF got.error
          THEN pc' = "crashed" /\ UNCHANGED <<actual_colors, actual_colors_std>>
          ELSE /\ pc' = "gate"
               /\ actual_colors' = got.colors
               /\ actual_colors_std' = got.std
    /\ did' = did \cup {"sample"}
    /\ UNCHANGED <<detVars, Acc, card, card_damaged, card_rotated, iter, meanErr,
                   noise2, coef, correction_error, written, ret, reported, algs,
                   minErr, ccVars>>

\* lines 18-20
DamageGate ==
    /\ pc = "gate"
    /\ did' = did \cup {"gate"}
    /\ IF AnyDamaged(actual_colors_std)
       THEN /\ card_damaged' = TRUE
            /\ ret' = <<TRUE, card_rotated, correction_error>>
            /\ pc' = "report"
       ELSE /\ pc' = "orient"
            /\ UNCHANGED <<card_damaged, ret>>
    /\ UNCHANGED <<detVars, Acc, card, sampled, actual_colors, actual_colors_std,
                   card_rotated, iter, meanErr, noise2, coef, correction_error,
                   written, reported, algs, minErr, ccVars>>

\* lines 26-47
Orient ==
    /\ pc = "orient"
    /\ did' = did \cup {"orient"}
    /\ LET rot == IsRotated(actual_colors) IN
       /\ actual_colors' = OrientColors(actual_colors, rot)
       /\ actual_colors_std' = OrientStd(actual_colors_std, rot)
       /\ card_rotated' = rot
    /\ pc' = "fit"
    /\ UNCHANGED <<detVars, Acc, card, sampled, card_damaged, iter, meanErr, noise2,
                   coef, correction_error, written, ret, reported, algs, minErr,
                   ccVars>>

\* one pass of the while loop, lines 48-61: the solver returns coefficients whose
\* mean error is any value (nan when the colors are nan)
FitAttempt ==
    /\ pc = "fit"
    /\ did' = did \cup {"fit"}
    /\ iter' = iter + 1
    /\ coef' = iter + 1
    /\ algs' = algs \cup {"gamma_correction"}
    /\ meanErr' \in (IF actual_colors[1][1] = NaN THEN {NaN} ELSE MeanErrors)
    /\ minErr' = IF iter = 0 \/ meanErr' < minErr THEN meanErr' ELSE minErr
    /\ IF Retry(Acc, meanErr', iter')
       THEN noise2' \in {Perturb(noise2, n) : n \in NoiseInputs} /\ pc' = "fit"
       ELSE UNCHANGED noise2 /\ pc' = "emit"
    /\ UNCHANGED <<detVars, Acc, card, sampled, actual_colors, actual_colors_std,
                   card_damaged, card_rotated, correction_error, written, ret,
                   reported, ccVars>>

\* lines 63-73.  round() of a nan raises ValueError in Python 3 and is nan in
\* Python 2
Emit ==
    /\ pc = "emit"
    /\ \/ /\ meanErr = NaN
          /\ pc' = "crashed"
          /\ UNCHANGED <<correction_error, written, ret, did, algs>>
       \/ /\ LET err == IF meanErr = NaN THEN NaN ELSE RoundPct(meanErr) IN
             /\ correction_error' = err
             /\ IF Accepted(err)
                THEN /\ written' = coef
                     /\ did' = did \cup {"write"}
                     /\ algs' = algs \cup {DefaultAlgorithm}
                ELSE UNCHANGED <<written, did, algs>>
             /\ ret' = <<card_damaged, card_rotated, err>>
          /\ pc' = "report"
    /\ UNCHANGED <<detVars, Acc, card, sampled, actual_colors, actual_colors_std,
                   card_damaged, card_rotated, iter, meanErr, noise2, coef, reported,
                   minErr, ccVars>>

\* main, lines 266-287, on the returned (card_damaged, card_rotated, correction_error)
ReportedOutcome(r) ==
    IF r[1] THEN "card damaged"
    ELSE IF FLt(r[3], ErrorGate) THEN "corrected image written"
    ELSE "correction unsatisfactory"

\* main, lines 259-287
Report ==
    /\ pc = "report"
    /\ reported' = ReportedOutcome(ret)
    /\ pc' = "done"
    /\ UNCHANGED <<detVars, Acc, card, sampled, actual_colors, actual_colors_std,
                   card_damaged, card_rotated, iter, meanErr, noise2, coef,
                   correction_error, did, written, ret, algs, minErr, ccVars>>

Next == MainDetect \/ Sample \/ DamageGate \/ Orient \/ FitAttempt \/ Emit \/ Report

Spec == Init /\ [][Next]_vars

----------------------------------------------------------------------------
(* colorbalance.py: _gamma_correction_model and correct_color *)

\* the largest value of a channel (uint8)
MaxChannel == 255

\* +inf, what np.power gives for 0 to a negative exponent
Inf == [n |-> 1, d |-> 0]

RECURSIVE IPow(_, _)
IPow(x, k) == IF k = 0 THEN 1 ELSE x * IPow(x, k - 1)

\* scaled_colors[j] of one pixel: np.dot(color_alpha, colors) + color_constant,
\* then np.clip(scaled_colors, 0, None)
Scaled(m, px, j) ==
    LET v == m.A[j][1] * px[1] + m.A[j][2] * px[2] + m.A[j][3] * px[3] + m.b[j]
    IN  IF v < 0 THEN 0 ELSE v

\* the factor 255.0 left out
GammaStageUnscaled(sc, g) ==
    IF g >= 0 THEN [n |-> IPow(sc, g), d |-> IPow(MaxChannel, g)]
    ELSE IF sc = 0 THEN Inf
    ELSE [n |-> IPow(MaxChannel, -g), d |-> IPow(sc, -g)]

\* 255.0 * np.power(scaled / 255.0, gamma), as the fraction n / d
GammaStage(sc, g) ==
    IF g >= 0 THEN [n |-> MaxChannel * IPow(sc, g), d |-> IPow(MaxChannel, g)]
    ELSE IF sc = 0 THEN Inf
    ELSE [n |-> MaxChannel * IPow(MaxChannel, -g), d |-> IPow(sc, -g)]

\* np.clip(x, 0, 255).astype(np.uint8): clipped, then the fraction dropped
ClipToUint8(q) ==
    IF q = Inf \/ q.n >= MaxChannel * q.d THEN MaxChannel
    ELSE IF q.n < 0 THEN 0
    ELSE q.n \div q.d

\* _gamma_correction_model on one pixel, lines 93-99
gamma_correction_model(m, px) == [j \in 1..3 |-> GammaStage(Scaled(m, px, j), m.g[j])]

\* image.reshape([h * w, 3]): the pixels row by row
Flatten(img) ==
    LET w == Len(img[1])
    IN  [k \in 1..(Len(img) * w) |-> img[((k - 1) \div w) + 1][((k - 1) % w) + 1]]

\* corrected_colors.reshape([h, w, 3])
Unflatten(px, h, w) == [r \in 1..h |-> [c \in 1..w |-> px[(r - 1) * w + c]]]

\* color_alpha.size and color_alpha.shape
AlphaSize(m) == Len(m.A) * Len(m.A[1])
AlphaShape(m) == <<Len(m.A), Len(m.A[1])>>

\* _classic_gamma_correction_model on one pixel, lines 67-71, color_alpha of
\* shape (3, 1) and a non-negative whole color_gamma: alpha * x ** gamma + beta
classic_gamma_correction_model(m, px) ==
    [j \in 1..3 |-> [n |-> m.A[j][1] * IPow(px[j], m.g[j]) + m.b[j], d |-> 1]]

\* a call that raised exc, having returned nothing
RaisedWith(exc) == [err |-> exc, did |-> {}, out |-> <<>>]

\* correct_color, lines 261-282: the dispatch on the algorithm name, the asserts of
\* the chosen model (lines 63-66 and 88-91), then the pixel mapping and the clip
correct_color(img, m, algorithm) ==
    IF ~Supported(algorithm) THEN RaisedWith("ValueError")
    ELSE IF algorithm = "classic_gamma_correction" /\ AlphaSize(m) # 3
    THEN RaisedWith("AssertionError")
    ELSE IF algorithm # "classic_gamma_correction" /\ AlphaShape(m) # <<3, 3>>
    THEN RaisedWith("AssertionError")
    ELSE LET colors == Flatten(img)
             corrected == [k \in DOMAIN colors |->
                              IF algorithm = "classic_gamma_correction"
                              THEN classic_gamma_correction_model(m, colors[k])
                              ELSE gamma_correction_model(m, colors[k])]
             clipped == [k \in DOMAIN colors |->
                            [j \in 1..3 |-> ClipToUint8(corrected[k][j])]]
         IN  [err |-> "none", did |-> {"model"},
              out |-> Unflatten(clipped, Len(img), Len(img[1]))]

\* args_init, lines 167-172: the flattened start of the solver
ArgsInit(algorithm) ==
    IF algorithm = "classic_gamma_correction" THEN <<1, 1, 1, 0, 0, 0, 1, 1, 1>>
    ELSE <<1, 0, 0, 0, 1, 0, 0, 0, 1, 0, 0, 0, 1, 1, 1>>

\* what optimize.leastsq may return as args_refined: the start, or other values,
\* negative exponents among them
LeastsqResults(algorithm) ==
    {ArgsInit(algorithm), [k \in DOMAIN ArgsInit(algorithm) |-> 8 - k]}

Abs(x) == IF x < 0 THEN -x ELSE x

\* get_color_correction_parameters, lines 160-191, args_refined being what the
\* solver returns (drawn only once the name has passed the dispatch)
get_color_correction_parameters(algorithm, args_refined) ==
    IF ~Supported(algorithm) THEN RaisedWith("ValueError")
    ELSE IF algorithm = "classic_gamma_correction"
    THEN [err |-> "none", did |-> {"leastsq"},
          out |-> [A |-> [j \in 1..3 |-> <<args_refined[j]>>],
                   b |-> [j \in 1..3 |-> args_refined[3 + j]],
                   g |-> [j \in 1..3 |-> Abs(args_refined[6 + j])]]]
    ELSE [err |-> "none", did |-> {"leastsq"},
          out |-> [A |-> [j \in 1..3 |-> [c \in 1..3 |-> args_refined[3 * (j - 1) + c]]],
                   b |-> [j \in 1..3 |-> args_refined[9 + j]],
                   g |-> [j \in 1..3 |-> Abs(args_refined[12 + j])]]]

(* Bounds of the images *)
MaxImgH == 2
MaxImgW == 2

\* a pixel whose three channels run through all of 0..255 with x
PixelOf(x) == <<x % 256, (x + 85) % 256, (x + 170) % 256>>

\* an h x w image, its pixels 43 apart from x0 on
ImageOf(h, w, x0) == [r \in 1..h |-> [c \in 1..w |-> PixelOf(x0 + 43 * ((r - 1) * w + c - 1))]]

Images == {ImageOf(h, w, x0) : h \in 1..MaxImgH, w \in 1..MaxImgW, x0 \in 0..MaxChannel}

Eye3 == << <<1, 0, 0>>, <<0, 1, 0>>, <<0, 0, 1>> >>
Mats ==
    {Eye3,
     << <<0, 0, 0>>, <<0, 0, 0>>, <<0, 0, 0>> >>,
     << <<2, 0, 0>>, <<0, 2, 0>>, <<0, 0, 2>> >>,
     << <<-1, 0, 0>>, <<0, -1, 0>>, <<0, 0, -1>> >>,
     << <<1, 1, 0>>, <<0, 1, -1>>, <<1, 0, 1>> >>}
Offsets == {<<0, 0, 0>>, <<-300, 7, 300>>}
Gammas == {<<1, 1, 1>>, <<0, 2, -1>>, <<2, 2, 2>>}
Models == [A : Mats, b : Offsets, g : Gammas]

\* A = identity, b = 0, gamma = 1
IdentityModel == [A |-> Eye3, b |-> <<0, 0, 0>>, g |-> <<1, 1, 1>>]

\* color_alpha of shape (3, 1), as the classic model takes it
ClassicIdentity == [A |-> << <<1>>, <<1>>, <<1>> >>, b |-> <<0, 0, 0>>, g |-> <<1, 1, 1>>]
ClassicModels ==
    {ClassicIdentity,
     [A |-> << <<0>>, <<1>>, <<0>> >>, b |-> <<0, 0, 0>>, g |-> <<1, 1, 1>>]}

\* names the dispatch does not know
UnsupportedInputs == {"linear", "Gamma_Correction"}

\* the (algorithm, coefficients) pairs of the calls
CallInputs ==
    (({"gamma_correction"} \X (Models \cup {ClassicIdentity}))
        \cup ({"classic_gamma_correction"} \X (ClassicModels \cup {IdentityModel})))
        \cup (UnsupportedInputs \X {IdentityModel, ClassicIdentity})

InitCC ==
    /\ cells = [a \in {1} |-> [i \in {1} |-> TooSmall]]
    /\ DetIdle
    /\ PipeIdle("idle")
    /\ ccPc = "call"
    /\ ccImage \in Images
    /\ \E c \in CallInputs : ccAlg = c[1] /\ ccModel = c[2]
    /\ ccErr = "none"
    /\ ccDid = {}
    /\ ccOut = <<>>

\* a call of correct_color(ccImage, color_alpha, color_constant, color_gamma, ccAlg)
ApplyCorrectColor ==
    /\ ccPc = "call"
    /\ LET r == correct_color(ccImage, ccModel, ccAlg) IN
       /\ ccOut' = r.out
       /\ ccErr' = r.err
       /\ ccDid' = r.did
       /\ ccPc' = IF r.err = "none" THEN "returned" ELSE "raised"
    /\ UNCHANGED <<detVars, pipeVars, ccAlg, ccImage, ccModel>>

\* a call of get_color_correction_parameters(true_colors, actual_colors, ccAlg)
GetParameters ==
    /\ ccPc = "call"
    /\ \E args \in (IF Supported(ccAlg) THEN LeastsqResults(ccAlg) ELSE {<<>>}) :
           LET r == get_color_correction_parameters(ccAlg, args) IN
           /\ ccOut' = r.out
           /\ ccErr' = r.err
           /\ ccDid' = r.did
           /\ ccPc' = IF r.err = "none" THEN "fitted" ELSE "raised"
    /\ UNCHANGED <<detVars, pipeVars, ccAlg, ccImage, ccModel>>

NextCC == ApplyCorrectColor \/ GetParameters

SpecCC == InitCC /\ [][NextCC]_vars

\* the calls of colorbalance from outside, beside main and its pipeline
InitAPI == Init \/ InitCC
NextAPI == Next \/ NextCC
SpecAPI == InitAPI /\ [][NextAPI]_vars

----------------------------------------------------------------------------
(* Properties of detect_card, under SpecDetect *)

\* the scales the task of angle a evaluates: those before its first too-small one
Evaluated(a) == {i \in ScaleIdx : \A j \in 1..i : cells[a][j] # TooSmall}
EvaluatedPairs == {p \in AngleIdx \X ScaleIdx : p[2] \in Evaluated(p[1])}
\* the (angle, scale) pairs whose resized image is at least as large as the template
FittingPairs == {p \in AngleIdx \X ScaleIdx : cells[p[1]][p[2]] # TooSmall}

\* detect_card returned the first-seen maximum of the candidates P
SelectedFrom(P) ==
    LET d == detRes.deg
        sc == detRes.scale
    IN  /\ <<d, sc>> \in P
        /\ detRes.conf = cells[d][sc]
        /\ \A p \in P : cells[p[1]][p[2]] <= detRes.conf
        /\ \A p \in P : cells[p[1]][p[2]] = detRes.conf =>
               (d < p[1] \/ (d = p[1] /\ sc <= p[2]))

\* C6 (as amended): whenever detect_card returns, its confidence is the maximum
\* score over the candidates that were evaluated (per angle, the scales before the
\* first too-small one), and scale and angle are those of the first-seen maximum:
\* earliest angle, and within it earliest scale
C6_SelectionEvaluated == detPc = "returned" => SelectedFrom(EvaluatedPairs)

\* C6 (as stated): the confidence is the maximum over the full (angle x scale)
\* grid, first-seen on ties
C6_SelectionFullGrid == detPc = "returned" => SelectedFrom(FittingPairs)

\* C6 witness: a result chosen among ties, one later in its angle and one in a
\* later angle
C6_Witness ==
    /\ detPc = "returned"
    /\ \E p \in EvaluatedPairs :
           p[1] = detRes.deg /\ p[2] > detRes.scale /\ cells[p[1]][p[2]] = detRes.conf
    /\ \E p \in EvaluatedPairs : p[1] > detRes.deg /\ cells[p[1]][p[2]] = detRes.conf

\* C7 (as stated): an angle none of whose scales fits contributes no match and
\* detect_card returns the best of the remaining angles; when no angle has a
\* fitting scale, detect_card returns a zero confidence; it never raises
C7_TemplateLargerNonFatal ==
    LET Unfit == {a \in AngleIdx : \A i \in ScaleIdx : cells[a][i] = TooSmall}
        Rest == {p \in EvaluatedPairs : p[1] \notin Unfit}
    IN  (detPc \in {"returned", "raised"} /\ Unfit # {}) =>
           /\ detPc = "returned"
           /\ Rest # {} => SelectedFrom(Rest)
           /\ Rest = {} => detRes.conf = 0

\* C12: for every interleaving and completion order of the per-angle tasks (every
\* worker count schedules one of them), detect_card ends as the evaluation of the
\* angles one after another does: same confidence, scale and angle (the crop bounds
\* are those of that cell), or the same exception; the results are taken in the
\* order of the angles; a step of a task writes only its own angle's slots, a
\* finished task's result is never written again, the shared inputs are never
\* written, and the caller reads the results only once every task has finished
C12_ParallelEqualsSequential ==
    /\ [](detPc \in {"returned", "raised"} => detRes = detect_card(cells))
    /\ [](detPc # "search" => \A a \in AngleIdx : taskPc[a] = "done")
    /\ [][/\ cells' = cells
          /\ search_degree' = search_degree
          /\ \A a \in AngleIdx : taskPc[a] = "done" =>
                 found'[a] = found[a] /\ taskPc'[a] = "done"
          /\ \A a, b \in AngleIdx :
                 (a # b /\ <<found[a], taskI[a], taskPc[a]>> # <<found'[a], taskI'[a], taskPc'[a]>>)
                     => <<found[b], taskI[b], taskPc[b]>> = <<found'[b], taskI'[b], taskPc'[b]>>]_vars

\* C12 witness: the later angle finished first with a different result, and
\* detect_card returned
C12_Witness ==
    /\ detPc = "returned"
    /\ doneOrder = <<2, 1>>
    /\ found[1].val > found[2].val

\* the first-seen best of the scales of angle a that were evaluated
FirstBest(a) ==
    IF Evaluated(a) = {} THEN NoMatch
    ELSE LET i == CHOOSE i \in Evaluated(a) : \A j \in Evaluated(a) :
                      \/ cells[a][j] < cells[a][i]
                      \/ cells[a][j] = cells[a][i] /\ i <= j
         IN  [val |-> cells[a][i], idx |-> i]

\* C14: a task matches the template only on scales before the first too-small one,
\* in the given order; once it has finished it has matched exactly those, whatever
\* fits later in the list, and its result is the first-seen best among them (none
\* when the first scale is too small)
C14_ScaleLoopEarlyExit ==
    \A a \in AngleIdx :
        /\ matched[a] \subseteq Evaluated(a)
        /\ taskPc[a] = "loop" => matched[a] = 1..(taskI[a] - 1)
        /\ taskPc[a] = "done" => matched[a] = Evaluated(a) /\ found[a] = FirstBest(a)

\* C14 witness: a finished task with a result, and a later scale that fits and
\* scores higher but was never matched
C14_Witness ==
    \E a \in AngleIdx :
        /\ taskPc[a] = "done"
        /\ found[a] # NoMatch
        /\ \E i \in ScaleIdx \ matched[a] :
               cells[a][i] # TooSmall /\ cells[a][i] > found[a].val

\* C15 (as stated): a task rotates the edge map exactly when its angle differs
\* from 0, and detect_card rotates the photo before cropping exactly when the
\* winning angle differs from 0
C15_RotationSkippedAtZero ==
    /\ \A a \in AngleIdx :
           taskPc[a] # "start" => (a \in rotCalls <=> search_degree[a].val # 0)
    /\ detPc = "returned" => (outRot <=> search_degree[detRes.deg].val # 0)

----------------------------------------------------------------------------
(* Properties of Color_correct_and_write and main, under Spec *)

\* Color_correct_and_write has returned
Returned == pc \in {"report", "done"} /\ "sample" \in did

\* C1: the pipeline ends Damaged exactly when some patch dispersion is strictly
\* greater than 90; then no orientation check, no fit attempt and no write has
\* happened and (damaged, rotated, error) = (true, false, 0) is returned
C1_DamageGating ==
    /\ "gate" \in did =>
           (card_damaged <=> \E i \in Patch : sampled.std[i] > 90)
    /\ card_damaged =>
           /\ did \cap {"orient", "fit", "write"} = {}
           /\ iter = 0 /\ written = 0
           /\ ret = <<TRUE, FALSE, 0>>
           /\ pc \in {"report", "done"}

\* C1 witness: damaged by a single patch at 91, all others at 90
C1_Witness ==
    /\ pc = "done" /\ card_damaged
    /\ \E k \in Patch : \A i \in Patch : sampled.std[i] = (IF i = k THEN 91 ELSE 90)

\* the percentage nearest to mean / 255 * 100, both in hundredths
IsPercentOf(e, mean) ==
    LET d == 51 * e - 20 * mean IN 2 * (IF d < 0 THEN -d ELSE d) < 51

C3_RetryLoop ==
    /\ [](iter <= 6)
    /\ []((pc = "emit" \/ (Returned /\ ~card_damaged)) => iter >= 1)
    /\ [][pc # "fit" => iter' = iter]_vars
    /\ [][pc = "fit" =>
            /\ iter' = iter + 1
            /\ pc' \in {"fit", "emit"}
            /\ (pc' = "fit") <=> (Acc > 40 /\ meanErr' > 4000 /\ iter' < 6)]_vars

\* C3 witness: six attempts made, the last one still above 40
C3_Witness == pc = "emit" /\ iter = 6 /\ meanErr > 4000

\* the sum of the channels of the sampled patch with 0-based index i
SampledSum(i) ==
    sampled.colors[i + 1][1] + sampled.colors[i + 1][2] + sampled.colors[i + 1][3]

\* the orientation step left both sequences as sampled, or reversed both
OrientedAs(rot) ==
    /\ card_rotated = rot
    /\ actual_colors = (IF rot THEN Reverse(sampled.colors) ELSE sampled.colors)
    /\ actual_colors_std = (IF rot THEN Reverse(sampled.std) ELSE sampled.std)

Count(bs) == Cardinality({k \in DOMAIN bs : bs[k]})

\* C4 (as amended): both sequences are reversed and rotated = true exactly when 2
\* or more of the three comparisons hold: sum[8] > sum[15], sum[5] > sum[18],
\* sum[0] < sum[23]; otherwise both are unchanged and rotated = false
C4_OrientationVotesMet ==
    "orient" \in did =>
        OrientedAs(Count(<<SampledSum(8) > SampledSum(15),
                           SampledSum(5) > SampledSum(18),
                           SampledSum(0) < SampledSum(23)>>) >= 2)

\* C4 (as stated): with the expectations 8 > 15, 5 > 18, 0 < 23, the sequences are
\* reversed exactly when 2 or more of the votes disagree with their expectation
C4_OrientationVotesDisagree ==
    "orient" \in did =>
        OrientedAs(Count(<<~(SampledSum(8) > SampledSum(15)),
                           ~(SampledSum(5) > SampledSum(18)),
                           ~(SampledSum(0) < SampledSum(23))>>) >= 2)

\* C4 witness: exactly two comparisons hold and the sequences were reversed
C4_Witness ==
    /\ "orient" \in did /\ card_rotated
    /\ SampledSum(8) > SampledSum(15) /\ SampledSum(5) > SampledSum(18)
    /\ SampledSum(0) > SampledSum(23)
    /\ actual_colors_std # sampled.std

\* C5: the reference sequence reversed end-to-end comes out in reference order
\* with rotated = true; the reference sequence comes out unchanged, rotated = false
C5_OrientationRoundTrip ==
    "orient" \in did =>
        /\ sampled.colors = Reverse(ColorCheckerRGB_CameraTrax) =>
               card_rotated /\ actual_colors = ColorCheckerRGB_CameraTrax
        /\ sampled.colors = ColorCheckerRGB_CameraTrax =>
               ~card_rotated /\ actual_colors = ColorCheckerRGB_CameraTrax

\* C5 witness: a reversed card was put back in reference order
C5_Witness ==
    /\ "orient" \in did
    /\ sampled.colors = Reverse(ColorCheckerRGB_CameraTrax)
    /\ actual_colors = ColorCheckerRGB_CameraTrax

\* C8 (as stated): sampling an empty card, or one whose patch window has no pixel
\* on an axis, fails with an error; no statistics are returned for it and the
\* pipeline does no damage gating, orientation or fitting with them
C8_EmptySampleRegionFails ==
    ("sample" \in did /\ (card.H \div 20 = 0 \/ card.W \div 30 = 0)) =>
        /\ sampled.error
        /\ did \cap {"gate", "orient", "fit"} = {}

\* C11 (as amended): the error returned for a non-damaged image is the rounded
\* round(meanError / 255 * 10000) / 100 of the final mean error: never negative,
\* and above 100 exactly when the mean error is above 255.01 (nan when the
\* sampled colors are nan)
C11_ErrorPercentUnbounded ==
    (Returned /\ ~card_damaged) =>
        IF meanErr = NaN THEN ret[3] = NaN
        ELSE /\ ret[3] >= 0
             /\ 51 * ret[3] - 20 * meanErr \in -25..25
             /\ (ret[3] > 10000) <=> (meanErr > 25501)

\* C11 (as stated, for the errors that are numbers): the error returned for a
\* non-damaged image lies between 0 and 100
C11_ErrorPercentInRange ==
    (Returned /\ ~card_damaged /\ ret[3] # NaN) => (ret[3] >= 0 /\ ret[3] <= 10000)

\* C11 witness: a mean error of 300 reported as 117.65 %
C11_Witness == pc = "done" /\ ~card_damaged /\ meanErr = 30000 /\ ret[3] = 11765

\* C16: when Color_correct_and_write returns after any number of attempts, the
\* coefficients it holds, the error it reports, the value its < 50 gate tested and
\* the coefficients of the written image are those of the final attempt, also when
\* an earlier attempt had a lower error; and at every moment the colors handed to
\* the solver lie at an offset in [0, 1) from the original observed colors
C16_FinalAttemptAndNoise ==
    /\ noise2 \in 0..9
    /\ (pc = "emit" \/ (Returned /\ ~card_damaged)) => coef = iter
    /\ (Returned /\ ~card_damaged) =>
           /\ ret[3] = (IF meanErr = NaN THEN NaN ELSE RoundPct(meanErr))
           /\ correction_error = ret[3]
           /\ written # 0 <=> FLt(ret[3], ErrorGate)
           /\ written # 0 => written = iter

\* C16 witness: six attempts, an earlier one with an error that passes the gate,
\* the final one with an error that does not, and nothing written
C16_Witness ==
    /\ pc = "done"
    /\ iter = MaxIter
    /\ noise2 > 0
    /\ minErr < meanErr
    /\ FLt(RoundPct(minErr), ErrorGate)
    /\ written = 0
    /\ ret[3] = RoundPct(meanErr)

Outcomes ==
    {"detection unsatisfactory", "card damaged", "correction unsatisfactory",
     "corrected image written"}

\* C9 (as stated): the pipeline is invoked exactly when the accuracy is > 0.3;
\* every processed image ends in one of the four reported outcomes; "corrected
\* image written" is reported exactly when the image was written
C9_OutcomeReporting ==
    /\ pc # "start" => (("sample" \in did) <=> (detPc = "returned" /\ Acc > 30))
    /\ pc \in {"done", "crashed"} => reported \in Outcomes
    /\ pc = "done" => ((reported = "corrected image written") <=> (written # 0))

----------------------------------------------------------------------------
(* Properties of the colorbalance calls, under SpecAPI and SpecCC *)

\* C13: a call of get_color_correction_parameters or correct_color with a name other
\* than the two known ones ends by raising ValueError, with no solver run, no pixel
\* mapped and nothing returned; ValueError is raised for no other name; and
\* Color_correct_and_write passes no name but 'gamma_correction'
C13_UnsupportedAlgorithm ==
    /\ (ccPc \notin {"idle", "call"} /\ ccAlg \in UnsupportedInputs) =>
           ccPc = "raised" /\ ccErr = "ValueError" /\ ccDid = {} /\ ccOut = <<>>
    /\ ccErr = "ValueError" => ccAlg \in UnsupportedInputs
    /\ ccPc \in {"returned", "fitted"} =>
           ccAlg \in {"classic_gamma_correction", "gamma_correction"} /\ ccDid # {}
    /\ algs \subseteq {"gamma_correction"}
    /\ ("fit" \in did => "gamma_correction" \in algs)

\* C13 witness: a call with a name that differs from a known one by case has raised
C13_Witness ==
    /\ ccPc = "raised"
    /\ ccAlg = "Gamma_Correction"
    /\ ccErr = "ValueError"

\* C10: with A = identity, b = 0, gamma = 1 the returned image has the dimensions
\* of the input and every channel value of the input; for any model every
\* returned channel value lies in 0..255
C10_IdentityAndRange ==
    ccPc = "returned" =>
        /\ Len(ccOut) = Len(ccImage)
        /\ \A r \in DOMAIN ccOut :
               /\ Len(ccOut[r]) = Len(ccImage[r])
               /\ \A c \in DOMAIN ccOut[r] : \A j \in 1..3 : ccOut[r][c][j] \in 0..255
        /\ ccModel = IdentityModel =>
               \A r \in DOMAIN ccImage : \A c \in DOMAIN ccImage[r] : \A j \in 1..3 :
                   ccOut[r][c][j] = ccImage[r][c][j]

\* C10 witness: the identity model returned an image of several pixels, one of
\* them with a channel at 255 and one with a channel at 0
C10_Witness ==
    /\ ccPc = "returned" /\ ccModel = IdentityModel
    /\ Len(ccImage) * Len(ccImage[1]) > 1
    /\ \E r \in DOMAIN ccOut : \E c \in DOMAIN ccOut[r] : \E j \in 1..3 : ccOut[r][c][j] = 255
    /\ \E r \in DOMAIN ccOut : \E c \in DOMAIN ccOut[r] : \E j \in 1..3 : ccOut[r][c][j] = 0

====
